---------------------------- MODULE Spec2Model ----------------------------
(***************************************************************************)
(* A model of BWTProcessor (src/bwt_processor.py): the Burrows-Wheeler     *)
(* transform by sorted cyclic rotations, the LF / FL index maps, the       *)
(* inversion walk and the backward search.                                 *)
(*                                                                         *)
(* A Python str is a sequence of code points; Python compares strings      *)
(* code point by code point.  Python indices are 0-based: a list of        *)
(* indices holds 0-based values and is read with At.                       *)
(***************************************************************************)
EXTENDS Integers, Sequences, FiniteSets

(* ---------------------------- bounds --------------------------------- *)
MaxLen == 3          \* longest text handed to bwt / bwa_search
MaxPat == 2          \* longest pattern handed to bwa_search
MaxCalls == 1        \* calls that return before the last call starts
MaxCol == 2          \* longest last column and LF array handed to bw_matching

(* ---------------------------- symbols -------------------------------- *)
Sentinel == 36       \* ord('$'), the end-of-string marker
Symbols == {35, 36, 65, 67}       \* '#', '$', 'A', 'C'

RECURSIVE StringsUpTo(_)
StringsUpTo(n) ==
  IF n = 0 THEN {<< >>}
  ELSE LET shorter == StringsUpTo(n - 1)
       IN  shorter \cup {Append(s, c) : s \in {x \in shorter : Len(x) = n - 1}, c \in Symbols}

Texts == StringsUpTo(MaxLen)
BwtStrings == StringsUpTo(MaxLen + 1)
Patterns == StringsUpTo(MaxPat)

\* the worked examples of the repository: "ACAGTGAT", "T$CGATAAG",
\* ("TCGACGAT", "CGA") and ("ATCGATCGATCG", "ATCG")
WorkedTexts == {<<65, 67, 65, 71, 84, 71, 65, 84>>}
WorkedBwtStrings == {<<84, 36, 67, 71, 65, 84, 65, 65, 71>>}
WorkedSearches ==
  {<< <<84, 67, 71, 65, 67, 71, 65, 84>>, <<67, 71, 65>> >>,
   << <<65, 84, 67, 71, 65, 84, 67, 71, 65, 84, 67, 71>>, <<65, 84, 67, 71>> >>}

\* what bw_matching is handed when it is called on its own: any last column,
\* any list of ints as LF array (any length, entries below 0 and past the end
\* included) and any pattern
SeqsUpTo(S, n) == UNION {[1..k -> S] : k \in 0..n}
MatchSymbols == {Sentinel, 65}
MatchColumns == SeqsUpTo(MatchSymbols, MaxCol)
MatchPatterns == SeqsUpTo(MatchSymbols, MaxPat)
LFArrays == SeqsUpTo(-1..MaxCol, MaxCol)

(* ---------------------------- Python builtins ------------------------ *)
At(s, i) == s[i + 1]

\* s[i] for any int i: a negative i counts from the end, and an i outside
\* -len(s)..len(s)-1 raises IndexError
InRange(s, i) == -Len(s) <= i /\ i < Len(s)
Item(s, i) == IF i < 0 THEN s[Len(s) + i + 1] ELSE s[i + 1]

Contains(s, c) == \E i \in 1..Len(s) : s[i] = c

Count(s, c) == Cardinality({i \in 1..Len(s) : s[i] = c})

Min(S) == CHOOSE x \in S : \A y \in S : x <= y

Max(S) == CHOOSE x \in S : \A y \in S : y <= x

\* str < str : the first differing code point decides, a proper prefix is smaller
StrLess(a, b) ==
  \E k \in 0..Len(a) :
    /\ k <= Len(b)
    /\ \A i \in 1..k : a[i] = b[i]
    /\ IF k = Len(a) THEN k < Len(b)
       ELSE k < Len(b) /\ a[k + 1] < b[k + 1]

\* sorted() on a list of str; it is stable: x goes behind every element that
\* is not greater
RECURSIVE InsertSorted(_, _)
InsertSorted(x, s) ==
  IF s = << >> THEN <<x>>
  ELSE IF StrLess(x, Head(s)) THEN <<x>> \o s
  ELSE <<Head(s)>> \o InsertSorted(x, Tail(s))

RECURSIVE Sorted(_)
Sorted(s) ==
  IF s = << >> THEN << >>
  ELSE InsertSorted(s[Len(s)], Sorted(SubSeq(s, 1, Len(s) - 1)))

\* iterating a str yields its 1-character strings; ''.join puts them back
Chars(s) == [k \in 1..Len(s) |-> <<s[k]>>]
Join(l) == [k \in 1..Len(l) |-> l[k][1]]

Reversed(s) == [i \in 1..Len(s) |-> s[Len(s) + 1 - i]]

RECURSIVE RStrip(_, _)
RStrip(s, c) ==
  IF s # << >> /\ s[Len(s)] = c THEN RStrip(SubSeq(s, 1, Len(s) - 1), c) ELSE s

\* str.index: the 0-based position of the first occurrence
IndexOf(s, c) == Min({i \in 0..(Len(s) - 1) : At(s, i) = c})

(* ---------------------------- BWTProcessor --------------------------- *)
\* mutant: S[-i:] + S[:-i], the rotation to the right
cyclic_rotations_right(text) ==
  LET S == text \o <<Sentinel>>
      n == Len(S)
  IN  [k \in 1..n |->
         IF k = 1 THEN S ELSE SubSeq(S, n - k + 2, n) \o SubSeq(S, 1, n - k + 1)]

\* mutant: range(len(text)) in place of range(len(S)) drops the last rotation
cyclic_rotations_short(text) ==
  LET S == text \o <<Sentinel>>
      n == Len(S)
  IN  [k \in 1..Len(text) |-> SubSeq(S, k, n) \o SubSeq(S, 1, k - 1)]

cyclic_rotations(text) ==
  LET S == text \o <<Sentinel>>
      n == Len(S)
  IN  [k \in 1..n |-> SubSeq(S, k, n) \o SubSeq(S, 1, k - 1)]

\* mutant: the list handed back as it came, the sort forgotten
lexsort_list_unsorted(text_list) == text_list

lexsort_list(text_list) == Sorted(text_list)

\* mutant: rotation[0] in place of rotation[-1], the first column
bwt_first_symbol(text) ==
  LET sorted_rotations == lexsort_list(cyclic_rotations(text))
  IN  [k \in 1..Len(sorted_rotations) |-> sorted_rotations[k][1]]

bwt(text) ==
  LET sorted_rotations == lexsort_list(cyclic_rotations(text))
  IN  [k \in 1..Len(sorted_rotations) |->
         sorted_rotations[k][Len(sorted_rotations[k])]]

\* mutant: the last column handed back as the first, the sort forgotten
last_to_first_string_unsorted(bwt_str) == Join(Chars(bwt_str))

last_to_first_string(bwt_str) == Join(Sorted(Chars(bwt_str)))

\* rank of position i (0-based) of s: occurrences of s[i] in s[0..i]
rank_of(s, i) == Cardinality({m \in 0..i : At(s, m) = At(s, i)})

\* mutant: first_pos[ch] = i without the `if ch not in first_pos` test, which
\* leaves the last position of ch
first_pos_overwritten(first_string, ch) ==
  Max({i \in 0..(Len(first_string) - 1) : At(first_string, i) = ch})

first_pos(first_string, ch) ==
  Min({i \in 0..(Len(first_string) - 1) : At(first_string, i) = ch})

\* mutant: the rank counted from the right end of L
last_to_first_index_rank_from_right(bwt_str) ==
  LET first_string == last_to_first_string(bwt_str)
      n == Len(bwt_str)
  IN  [k \in 1..n |->
         first_pos(first_string, bwt_str[k])
           + (Cardinality({m \in k..n : bwt_str[m] = bwt_str[k]}) - 1)]

last_to_first_index(bwt_str) ==
  LET first_string == last_to_first_string(bwt_str)
  IN  [k \in 1..Len(bwt_str) |->
         first_pos(first_string, bwt_str[k]) + (rank_of(bwt_str, k - 1) - 1)]

\* pos_lists_L[ch]: the positions of ch in L, in the order they were appended
pos_lists_L(bwt_str, ch) ==
  LET Holds(i) == At(bwt_str, i) = ch
  IN  SelectSeq([k \in 1..Len(bwt_str) |-> k - 1], Holds)

\* mutant: pos_lists_L[ch][-k], the k-th position from the end
first_to_last_index_from_end(bwt_str) ==
  LET first_string == last_to_first_string(bwt_str)
  IN  [k \in 1..Len(bwt_str) |->
         LET pos == pos_lists_L(bwt_str, first_string[k])
         IN  At(pos, Len(pos) - rank_of(first_string, k - 1))]

first_to_last_index(bwt_str) ==
  LET first_string == last_to_first_string(bwt_str)
  IN  [k \in 1..Len(bwt_str) |->
         At(pos_lists_L(bwt_str, first_string[k]), rank_of(first_string, k - 1) - 1)]

\* benchmark_search_methods: the naive count of start offsets
naive_count(text, pat) ==
  Cardinality({i \in 0..(Len(text) - Len(pat)) :
                 SubSeq(text, i + 1, i + Len(pat)) = pat})

\* mutant: range(top_pointer, bottom_pointer), the bottom row left out
current_positions_open(lastcol_str, top, bottom, symbol) ==
  {i \in top..(bottom - 1) : InRange(lastcol_str, i) /\ Item(lastcol_str, i) = symbol}

\* the positions of symbol in lastcol_str[top..bottom], ascending; MatchStep
\* raises before it reads them when a row is outside lastcol_str
current_positions(lastcol_str, top, bottom, symbol) ==
  {i \in top..bottom : InRange(lastcol_str, i) /\ Item(lastcol_str, i) = symbol}

\* analyze_compression.count_runs, lines 349-356: the loop from index i on
RECURSIVE count_runs_loop(_, _, _)
count_runs_loop(s, i, runs) ==
  IF i > Len(s) - 1 THEN runs
  ELSE count_runs_loop(s, i + 1, IF At(s, i) # At(s, i - 1) THEN runs + 1 ELSE runs)

\* mutant: runs = 0 at the start of the loop
count_runs_from_zero(s) == IF s = << >> THEN 0 ELSE count_runs_loop(s, 1, 0)

count_runs(s) == IF s = << >> THEN 0 ELSE count_runs_loop(s, 1, 1)

\* Counter(s).values(): the count of each symbol, in order of first occurrence
counter_values(s) ==
  LET IsFirst(k) == \A m \in 1..(k - 1) : s[m] # s[k]
      firsts == SelectSeq([k \in 1..Len(s) |-> k], IsFirst)
  IN  [q \in 1..Len(firsts) |-> Count(s, s[firsts[q]])]

\* analyze_compression.calculate_entropy, lines 362-378.  The float
\* -sum(p * log2(p)), p = count / length, is kept as the terms it is computed
\* from: the counts in summation order and the length (0 for the empty str).
calculate_entropy(s) ==
  IF s = << >> THEN [counts |-> << >>, length |-> 0]
  ELSE [counts |-> counter_values(s), length |-> Len(s)]

\* analyze_compression, lines 346-392.  A quotient is kept as <<numerator,
\* denominator>>, a difference of entropies as <<minuend, subtrahend>>.
analyze_compression(text) ==
  LET bwt_result == bwt(text)
      original_runs == count_runs(text)
      bwt_runs == count_runs(bwt_result)
      original_entropy == calculate_entropy(text)
      bwt_entropy == calculate_entropy(bwt_result)
  IN  [original_length |-> Len(text),
       bwt_length |-> Len(bwt_result),
       original_runs |-> original_runs,
       bwt_runs |-> bwt_runs,
       run_reduction_ratio |->
         IF original_runs > 0 THEN <<bwt_runs, original_runs>> ELSE <<0, 1>>,
       original_entropy |-> original_entropy,
       bwt_entropy |-> bwt_entropy,
       entropy_reduction |-> <<original_entropy, bwt_entropy>>]

\* mutant: bottom - top, the range taken as half-open
range_count_half_open(top, bottom) == bottom - top

\* line 281
range_count(top, bottom) == bottom - top + 1

(* ---------------------------- state ---------------------------------- *)
VARIABLES
  pc,                 \* where the processor's caller stands
  op,                 \* the method that is running or has returned
  compression_stats,  \* self.compression_stats
  calls_returned,     \* how many calls on this processor have returned
  text,               \* bwt / bwa_search: the text argument
  search_pattern,     \* bwa_search: the pattern argument
  bwt_string,         \* invert_bwt, bw_matching, index maps: the last column
  next_row,           \* invert_bwt: next_row; bw_matching: last_to_first_idx
  j,                  \* invert_bwt: the current row
  output,             \* invert_bwt: the symbols appended so far
  visited,            \* invert_bwt: the rows at which a symbol was appended
  from_bwt,           \* invert_bwt: the caller passed the bwt of `text`
  pattern,            \* bw_matching: the pattern not yet consumed
  top_pointer,        \* bw_matching
  bottom_pointer,     \* bw_matching
  iterations,         \* bw_matching: how often the loop body was entered
  result              \* what the call returned or raised

vars == <<pc, op, compression_stats, calls_returned, iterations, text, search_pattern, bwt_string, next_row,
          j, output, visited, from_bwt, pattern, top_pointer, bottom_pointer, result>>

NoStats == analyze_compression(<< >>)
NoResult ==
  [kind |-> "none", str |-> << >>, num |-> 0, idx |-> << >>, list |-> << >>,
   stats |-> NoStats, exc |-> "none"]
ReturnStr(s) == [NoResult EXCEPT !.kind = "return", !.str = s]
ReturnInt(n) == [NoResult EXCEPT !.kind = "return", !.num = n]
ReturnIdx(l) == [NoResult EXCEPT !.kind = "return", !.idx = l]
ReturnList(l) == [NoResult EXCEPT !.kind = "return", !.list = l]
ReturnStats(d) == [NoResult EXCEPT !.kind = "return", !.stats = d]
Raise(e) == [NoResult EXCEPT !.kind = "raise", !.exc = e]

\* no call is running: every local of the last call is gone
Locals ==
  /\ text = << >> /\ search_pattern = << >> /\ bwt_string = << >>
  /\ next_row = << >> /\ j = 0 /\ output = << >> /\ visited = << >>
  /\ from_bwt = FALSE
  /\ pattern = << >> /\ top_pointer = 0 /\ bottom_pointer = 0
  /\ iterations = 0
  /\ result = NoResult

Init ==
  /\ pc = "idle"
  /\ op = "none"
  /\ compression_stats = << >>
  /\ calls_returned = 0
  /\ Locals

(* ---------------------------- bwt ------------------------------------ *)
CallBwt(t) ==
  /\ pc = "idle"
  /\ pc' = "done"
  /\ op' = "bwt"
  /\ text' = t
  /\ result' = ReturnStr(bwt(t))
  /\ UNCHANGED <<compression_stats, calls_returned, iterations, search_pattern, bwt_string, next_row, j, output,
                 visited, from_bwt, pattern, top_pointer, bottom_pointer>>

(* ---------------------------- cyclic_rotations ----------------------- *)
CallCyclicRotations(t) ==
  /\ pc = "idle"
  /\ pc' = "done"
  /\ op' = "cyclic_rotations"
  /\ text' = t
  /\ result' = ReturnList(cyclic_rotations(t))
  /\ UNCHANGED <<compression_stats, calls_returned, iterations, search_pattern, bwt_string, next_row,
                 j, output, visited, from_bwt, pattern, top_pointer, bottom_pointer>>

(* ---------------------------- analyze_compression -------------------- *)
\* mutant: the statistics are kept in self.compression_stats and a later call
\* hands back what is kept there
CallAnalyzeCompression_cached(t) ==
  /\ pc = "idle"
  /\ pc' = "done"
  /\ op' = "analyze_compression"
  /\ text' = t
  /\ compression_stats' =
       IF compression_stats = << >> THEN <<analyze_compression(t)>>
       ELSE compression_stats
  /\ result' = ReturnStats(compression_stats'[1])
  /\ UNCHANGED <<calls_returned, iterations, search_pattern, bwt_string, next_row,
                 j, output, visited, from_bwt, pattern, top_pointer, bottom_pointer>>

\* lines 336-392: nothing of self is read or written
CallAnalyzeCompression(t) ==
  /\ pc = "idle"
  /\ pc' = "done"
  /\ op' = "analyze_compression"
  /\ text' = t
  /\ result' = ReturnStats(analyze_compression(t))
  /\ UNCHANGED <<compression_stats, calls_returned, iterations, search_pattern, bwt_string, next_row,
                 j, output, visited, from_bwt, pattern, top_pointer, bottom_pointer>>

(* ---------------------------- index maps ----------------------------- *)
CallLastToFirstIndex(L) ==
  /\ pc = "idle"
  /\ pc' = "done"
  /\ op' = "last_to_first_index"
  /\ bwt_string' = L
  /\ result' = ReturnIdx(last_to_first_index(L))
  /\ UNCHANGED <<compression_stats, calls_returned, iterations, text, search_pattern, next_row, j, output,
                 visited, from_bwt, pattern, top_pointer, bottom_pointer>>

CallFirstToLastIndex(L) ==
  /\ pc = "idle"
  /\ pc' = "done"
  /\ op' = "first_to_last_index"
  /\ bwt_string' = L
  /\ result' = ReturnIdx(first_to_last_index(L))
  /\ UNCHANGED <<compression_stats, calls_returned, iterations, text, search_pattern, next_row, j, output,
                 visited, from_bwt, pattern, top_pointer, bottom_pointer>>

(* ---------------------------- invert_bwt ----------------------------- *)
\* mutant: L.find('$') in place of L.index('$'): -1 when '$' is absent, and
\* Python reads index -1 as the last row
invert_bwt_begin_find(L) ==
  /\ op' = "invert_bwt"
  /\ bwt_string' = L
  /\ next_row' = last_to_first_index(L)
  /\ pc' = "invert_loop"
  /\ j' = IF Contains(L, Sentinel) THEN IndexOf(L, Sentinel) ELSE Len(L) - 1
  /\ result' = NoResult
  /\ output' = << >>
  /\ visited' = << >>
  /\ UNCHANGED <<compression_stats, calls_returned, iterations, text, search_pattern, pattern, top_pointer,
                 bottom_pointer>>

\* lines 223-232; L.index('$') raises ValueError when '$' is not in L
invert_bwt_begin(L) ==
  /\ op' = "invert_bwt"
  /\ bwt_string' = L
  /\ next_row' = last_to_first_index(L)
  /\ IF Contains(L, Sentinel)
     THEN /\ pc' = "invert_loop"
          /\ j' = IndexOf(L, Sentinel)
          /\ result' = NoResult
     ELSE /\ pc' = "done"
          /\ j' = 0
          /\ result' = Raise("ValueError")
  /\ output' = << >>
  /\ visited' = << >>
  /\ UNCHANGED <<compression_stats, calls_returned, iterations, text, search_pattern, pattern, top_pointer,
                 bottom_pointer>>

\* invert_bwt called on any string
CallInvertBwt(L) ==
  /\ pc = "idle"
  /\ from_bwt' = FALSE
  /\ invert_bwt_begin(L)

\* invert_bwt called on what bwt(text) has just returned
\* (test_bwt_inversion, and lines 405-409)
CallInvertBwtOfResult ==
  /\ pc = "done"
  /\ op = "bwt"
  /\ result.kind = "return"
  /\ from_bwt' = TRUE
  /\ invert_bwt_begin(result.str)

\* lines 233-235: one iteration of for _ in range(n)
InvertStep ==
  /\ pc = "invert_loop"
  /\ Len(output) < Len(bwt_string)
  /\ output' = Append(output, At(bwt_string, j))
  /\ visited' = Append(visited, j)
  /\ j' = At(next_row, j)
  /\ UNCHANGED <<pc, op, compression_stats, calls_returned, iterations, text, search_pattern, bwt_string, next_row,
                 from_bwt, pattern, top_pointer, bottom_pointer, result>>

\* lines 238-239
InvertReturn ==
  /\ pc = "invert_loop"
  /\ Len(output) = Len(bwt_string)
  /\ pc' = "done"
  /\ result' = ReturnStr(RStrip(Reversed(output), Sentinel))
  /\ UNCHANGED <<op, compression_stats, calls_returned, iterations, text, search_pattern, bwt_string, next_row, j,
                 output, visited, from_bwt, pattern, top_pointer, bottom_pointer>>

(* ---------------------------- bwa_search / bw_matching --------------- *)
\* bwa_search lines 301-310 and bw_matching lines 258-259
CallBwaSearch(t, p) ==
  /\ pc = "idle"
  /\ pc' = "match_loop"
  /\ op' = "bwa_search"
  /\ text' = t
  /\ search_pattern' = p
  /\ bwt_string' = bwt(t)
  /\ next_row' = last_to_first_index(bwt_string')
  /\ pattern' = p
  /\ top_pointer' = 0
  /\ bottom_pointer' = Len(bwt_string') - 1
  /\ UNCHANGED <<compression_stats, calls_returned, iterations, j, output, visited, from_bwt, result>>

\* mutant: absence empties the range and the loop goes on to its condition,
\* which then ends the search
MatchStep_range_emptied ==
  /\ pc = "match_loop"
  /\ iterations <= Len(search_pattern) + 1
  /\ IF ~(top_pointer <= bottom_pointer)
     THEN /\ pc' = "done"
          /\ result' = ReturnInt(0)
          /\ UNCHANGED <<pattern, top_pointer, bottom_pointer, iterations>>
     ELSE /\ iterations' = iterations + 1
          /\ IF pattern # << >>
             THEN LET symbol == pattern[Len(pattern)]
                      found == current_positions(bwt_string, top_pointer, bottom_pointer, symbol)
                  IN  /\ pattern' = SubSeq(pattern, 1, Len(pattern) - 1)
                      /\ IF \E i \in top_pointer..bottom_pointer : ~InRange(bwt_string, i)
                         THEN /\ pc' = "done"
                              /\ result' = Raise("IndexError")
                              /\ UNCHANGED <<top_pointer, bottom_pointer>>
                         ELSE IF found = {}
                         THEN /\ top_pointer' = bottom_pointer + 1
                              /\ UNCHANGED <<pc, result, bottom_pointer>>
                         ELSE IF ~InRange(next_row, Min(found))
                         THEN /\ pc' = "done"
                              /\ result' = Raise("IndexError")
                              /\ UNCHANGED <<top_pointer, bottom_pointer>>
                         ELSE IF ~InRange(next_row, Max(found))
                         THEN /\ pc' = "done"
                              /\ result' = Raise("IndexError")
                              /\ top_pointer' = Item(next_row, Min(found))
                              /\ UNCHANGED bottom_pointer
                         ELSE /\ top_pointer' = Item(next_row, Min(found))
                              /\ bottom_pointer' = Item(next_row, Max(found))
                              /\ UNCHANGED <<pc, result>>
             ELSE /\ pc' = "done"
                  /\ result' = ReturnInt(range_count(top_pointer, bottom_pointer))
                  /\ UNCHANGED <<pattern, top_pointer, bottom_pointer>>
  /\ UNCHANGED <<op, compression_stats, calls_returned, text, search_pattern, bwt_string,
                 next_row, j, output, visited, from_bwt>>

\* mutant: line 265 is left out, the pattern keeps its last symbol
MatchStep_pattern_kept ==
  /\ pc = "match_loop"
  /\ iterations <= Len(search_pattern) + 1
  /\ IF ~(top_pointer <= bottom_pointer)
     THEN /\ pc' = "done"
          /\ result' = ReturnInt(0)
          /\ UNCHANGED <<pattern, top_pointer, bottom_pointer, iterations>>
     ELSE /\ iterations' = iterations + 1
          /\ IF pattern # << >>
             THEN LET symbol == pattern[Len(pattern)]
                      found == current_positions(bwt_string, top_pointer, bottom_pointer, symbol)
                  IN  /\ pattern' = pattern
                      /\ IF \E i \in top_pointer..bottom_pointer : ~InRange(bwt_string, i)
                         THEN /\ pc' = "done"
                              /\ result' = Raise("IndexError")
                              /\ UNCHANGED <<top_pointer, bottom_pointer>>
                         ELSE IF found = {}
                         THEN /\ pc' = "done"
                              /\ result' = ReturnInt(0)
                              /\ UNCHANGED <<top_pointer, bottom_pointer>>
                         ELSE IF ~InRange(next_row, Min(found))
                         THEN /\ pc' = "done"
                              /\ result' = Raise("IndexError")
                              /\ UNCHANGED <<top_pointer, bottom_pointer>>
                         ELSE IF ~InRange(next_row, Max(found))
                         THEN /\ pc' = "done"
                              /\ result' = Raise("IndexError")
                              /\ top_pointer' = Item(next_row, Min(found))
                              /\ UNCHANGED bottom_pointer
                         ELSE /\ top_pointer' = Item(next_row, Min(found))
                              /\ bottom_pointer' = Item(next_row, Max(found))
                              /\ UNCHANGED <<pc, result>>
             ELSE /\ pc' = "done"
                  /\ result' = ReturnInt(range_count(top_pointer, bottom_pointer))
                  /\ UNCHANGED <<pattern, top_pointer, bottom_pointer>>
  /\ UNCHANGED <<op, compression_stats, calls_returned, text, search_pattern, bwt_string,
                 next_row, j, output, visited, from_bwt>>

\* one evaluation of the while condition and of the loop body, lines 261-283.
\* A subscript outside lastcol_str (line 270) or outside last_to_first_idx
\* (lines 277-278) raises IndexError.  The first guard caps the counter one
\* past the most the loop can need; it never disables a step of the loop.
MatchStep ==
  /\ pc = "match_loop"
  /\ iterations <= Len(search_pattern) + 1
  /\ IF ~(top_pointer <= bottom_pointer)
     THEN /\ pc' = "done"
          /\ result' = ReturnInt(0)
          /\ UNCHANGED <<pattern, top_pointer, bottom_pointer, iterations>>
     ELSE /\ iterations' = iterations + 1
          /\ IF pattern # << >>
             THEN LET symbol == pattern[Len(pattern)]
                      found == current_positions(bwt_string, top_pointer, bottom_pointer, symbol)
                  IN  /\ pattern' = SubSeq(pattern, 1, Len(pattern) - 1)
                      /\ IF \E i \in top_pointer..bottom_pointer : ~InRange(bwt_string, i)
                         THEN /\ pc' = "done"
                              /\ result' = Raise("IndexError")
                              /\ UNCHANGED <<top_pointer, bottom_pointer>>
                         ELSE IF found = {}
                         THEN /\ pc' = "done"
                              /\ result' = ReturnInt(0)
                              /\ UNCHANGED <<top_pointer, bottom_pointer>>
                         ELSE IF ~InRange(next_row, Min(found))
                         THEN /\ pc' = "done"
                              /\ result' = Raise("IndexError")
                              /\ UNCHANGED <<top_pointer, bottom_pointer>>
                         ELSE IF ~InRange(next_row, Max(found))
                         THEN /\ pc' = "done"
                              /\ result' = Raise("IndexError")
                              /\ top_pointer' = Item(next_row, Min(found))
                              /\ UNCHANGED bottom_pointer
                         ELSE /\ top_pointer' = Item(next_row, Min(found))
                              /\ bottom_pointer' = Item(next_row, Max(found))
                              /\ UNCHANGED <<pc, result>>
             ELSE /\ pc' = "done"
                  /\ result' = ReturnInt(range_count(top_pointer, bottom_pointer))
                  /\ UNCHANGED <<pattern, top_pointer, bottom_pointer>>
  /\ UNCHANGED <<op, compression_stats, calls_returned, text, search_pattern, bwt_string,
                 next_row, j, output, visited, from_bwt>>

\* bw_matching called on its own by a new processor: the state when the
\* loop condition is first evaluated, lines 241-259
bw_matching_entry(L, P, LF) ==
  /\ pc = "match_loop"
  /\ op = "bw_matching"
  /\ compression_stats = << >>
  /\ calls_returned = 0
  /\ text = << >> /\ j = 0 /\ output = << >> /\ visited = << >> /\ from_bwt = FALSE
  /\ search_pattern = P
  /\ bwt_string = L
  /\ next_row = LF
  /\ pattern = P
  /\ top_pointer = 0
  /\ bottom_pointer = Len(L) - 1
  /\ iterations = 0
  /\ result = NoResult

(* ---------------------------- the caller ----------------------------- *)
\* the call is over: its locals and its result are dropped, the object stays
Return ==
  /\ pc = "done"
  /\ calls_returned < MaxCalls
  /\ calls_returned' = calls_returned + 1
  /\ pc' = "idle"
  /\ op' = "none"
  /\ text' = << >> /\ search_pattern' = << >> /\ bwt_string' = << >>
  /\ next_row' = << >> /\ j' = 0 /\ output' = << >> /\ visited' = << >>
  /\ from_bwt' = FALSE
  /\ pattern' = << >> /\ top_pointer' = 0 /\ bottom_pointer' = 0
  /\ iterations' = 0
  /\ result' = NoResult
  /\ UNCHANGED compression_stats

\* a call starts only when no call is running (single-threaded caller)
Next ==
  \/ pc = "idle" /\ \E t \in Texts \cup WorkedTexts : CallBwt(t)
  \/ pc = "idle" /\ \E t \in Texts : CallCyclicRotations(t)
  \/ pc = "idle" /\ \E t \in Texts : CallAnalyzeCompression(t)
  \/ pc = "idle" /\ \E L \in BwtStrings : CallLastToFirstIndex(L)
  \/ pc = "idle" /\ \E L \in BwtStrings : CallFirstToLastIndex(L)
  \/ pc = "idle" /\ \E L \in BwtStrings \cup WorkedBwtStrings : CallInvertBwt(L)
  \/ CallInvertBwtOfResult
  \/ InvertStep
  \/ InvertReturn
  \/ pc = "idle" /\ \E t \in Texts : \E p \in Patterns : CallBwaSearch(t, p)
  \/ pc = "idle" /\ \E tp \in WorkedSearches : CallBwaSearch(tp[1], tp[2])
  \/ MatchStep
  \/ Return

Spec == Init /\ [][Next]_vars

\* one call of bw_matching with arguments of any shape; the interpreter runs
\* the call on, so a step of the loop that can be taken is taken
SearchInit ==
  \E L \in MatchColumns : \E P \in MatchPatterns : \E LF \in LFArrays :
    bw_matching_entry(L, P, LF)

SearchNext == MatchStep

SearchSpec == SearchInit /\ [][SearchNext]_vars /\ WF_vars(MatchStep)

(* ============================ properties ============================== *)
Returned == pc = "done" /\ result.kind = "return"

IsPermutation(l, n) ==
  /\ Len(l) = n
  /\ {l[k] : k \in 1..Len(l)} = 0..(n - 1)

\* C1 - round trip: when invert_bwt is called on bwt(text) and text holds no
\* '$', it returns text.
C1_RoundTrip ==
  (pc = "done" /\ op = "invert_bwt" /\ from_bwt /\ ~Contains(text, Sentinel))
    => result = ReturnStr(text)

C1_Witness ==
  /\ pc = "done" /\ op = "invert_bwt" /\ from_bwt
  /\ text = <<67, 65, 65>>
  /\ result = ReturnStr(<<67, 65, 65>>)

\* C2 - match-count oracle: for every text and every nonempty pattern,
\* bwa_search returns the number of start offsets at which the pattern stands
\* in the text.
C2_MatchCountOracle ==
  (pc = "done" /\ op = "bwa_search" /\ search_pattern # << >>)
    => result = ReturnInt(naive_count(text, search_pattern))

\* C3 - inverse mapping: for every string L, first_to_last_index(L) and
\* last_to_first_index(L) are inverse to each other, FL[LF[i]] = i and
\* LF[FL[i]] = i for every index i.
C3_InverseMapping ==
  (Returned /\ op \in {"last_to_first_index", "first_to_last_index"})
    => LET LF == IF op = "last_to_first_index" THEN result.idx
                 ELSE last_to_first_index(bwt_string)
           FL == IF op = "first_to_last_index" THEN result.idx
                 ELSE first_to_last_index(bwt_string)
           n  == Len(bwt_string)
       IN  /\ Len(LF) = n /\ Len(FL) = n
           /\ \A i \in 0..(n - 1) :
                /\ At(LF, i) \in 0..(n - 1)
                /\ At(FL, i) \in 0..(n - 1)
                /\ At(FL, At(LF, i)) = i
                /\ At(LF, At(FL, i)) = i

C3_Witness ==
  /\ Returned /\ op = "first_to_last_index"
  /\ bwt_string = <<65, 36, 65, 35>>
  /\ result.idx = <<3, 1, 0, 2>>

\* C4 - permutation: bwt(text) has length len(text)+1 and holds every symbol
\* as often as text + '$' does.
C4_Permutation ==
  (pc = "done" /\ op = "bwt")
    => /\ result.kind = "return"
       /\ Len(result.str) = Len(text) + 1
       /\ \A c \in Symbols : Count(result.str, c) = Count(text \o <<Sentinel>>, c)

C4_Witness ==
  /\ pc = "done" /\ op = "bwt"
  /\ text = <<65, 67, 65>>
  /\ result = ReturnStr(<<65, 67, 36, 65>>)

\* C5 - transform validation: bwt called on a text that holds '$' fails with
\* InvalidAlphabet and returns no string.
C5_TransformValidation ==
  (pc = "done" /\ op = "bwt" /\ Contains(text, Sentinel))
    => result = Raise("InvalidAlphabet")

C7_SeveralSentinelsRejected ==
  (pc = "done" /\ op = "invert_bwt" /\ ~from_bwt /\ Count(bwt_string, Sentinel) > 1)
    => result = Raise("MalformedTransform")

\* C8 - empty pattern: bwa_search(text, "") returns len(text)+1 for every
\* text, the empty one included, and raises nothing.
C8_EmptyPattern ==
  (pc = "done" /\ op = "bwa_search" /\ search_pattern = << >>)
    => result = ReturnInt(Len(text) + 1)

C8_Witness ==
  /\ pc = "done" /\ op = "bwa_search"
  /\ text = << >> /\ search_pattern = << >>
  /\ result = ReturnInt(1)

\* C9 - absent symbol: when the pattern holds a symbol that does not occur in
\* the text, bwa_search returns 0.
C9_AbsentSymbol ==
  (pc = "done" /\ op = "bwa_search"
     /\ \E k \in 1..Len(search_pattern) : ~Contains(text, search_pattern[k]))
    => result = ReturnInt(0)

\* C10 - LF is a permutation of 0..n-1 for every string; on bwt(text) with no
\* '$' in text it is one n-cycle: the n steps of invert_bwt's walk start at
\* the sentinel row, stand on every row exactly once and end on the sentinel
\* row again.
C10_LFPermutationSingleCycle ==
  /\ (Returned /\ op = "last_to_first_index")
       => IsPermutation(result.idx, Len(bwt_string))
  /\ (op = "invert_bwt") => IsPermutation(next_row, Len(bwt_string))
  /\ (op = "invert_bwt" /\ from_bwt /\ ~Contains(text, Sentinel))
       => LET n == Len(bwt_string)
          IN  /\ pc \in {"invert_loop", "done"}
              /\ \A a, b \in 1..Len(visited) : visited[a] = visited[b] => a = b
              /\ Len(visited) > 0 => At(bwt_string, visited[1]) = Sentinel
              /\ Len(visited) \in 1..(n - 1) => j # visited[1]
              /\ Len(visited) = n
                   => /\ {visited[k] : k \in 1..n} = 0..(n - 1)
                      /\ j = visited[1]

C10_Witness ==
  /\ pc = "done" /\ op = "invert_bwt" /\ from_bwt
  /\ text = <<65, 35, 65>>
  /\ Len(visited) = 4
  /\ j = visited[1]

\* C11 - the sentinel is lowest: for every nonempty text without '$', row 0
\* of the sorted rotations begins with '$', the first column starts with '$'
\* and bwt(text)[0] is the last symbol of text.
C11_SentinelLowest ==
  (pc = "done" /\ op = "bwt" /\ text # << >> /\ ~Contains(text, Sentinel))
    => /\ lexsort_list(cyclic_rotations(text))[1][1] = Sentinel
       /\ At(last_to_first_string(result.str), 0) = Sentinel
       /\ At(result.str, 0) = text[Len(text)]

C13_NoCrossCallState ==
  /\ compression_stats = << >>
  /\ pc = "idle" => (op = "none" /\ Locals)
  /\ (pc = "done" /\ op = "analyze_compression")
       => /\ result = ReturnStats(analyze_compression(text))
          /\ result.stats.original_length = Len(text)
          /\ result.stats.bwt_length = Len(text) + 1

C13_Witness ==
  /\ pc = "done" /\ op = "analyze_compression"
  /\ calls_returned >= 1
  /\ text = <<65, 65, 67>>
  /\ result.stats.original_runs = 2
  /\ result.stats.bwt_runs = 3

BeginsWith(r, w) == Len(w) <= Len(r) /\ SubSeq(r, 1, Len(w)) = w

\* the suffix of the pattern that bw_matching has consumed
Consumed == SubSeq(search_pattern, Len(pattern) + 1, Len(search_pattern))

\* the rows of the sorted rotations of text + '$' that begin with w
RowsBeginningWith(w) ==
  LET R == lexsort_list(cyclic_rotations(text))
  IN  {i \in 0..(Len(R) - 1) : BeginsWith(At(R, i), w)}

\* C14 - search range: in bwa_search with text and pattern free of '$', while
\* bw_matching has not returned, top_pointer..bottom_pointer is exactly the
\* set of rows of the sorted rotations that begin with the consumed suffix,
\* and it is not empty; the count returned after the whole pattern is the
\* number of rotations that begin with the pattern.
C14_SearchRange ==
  (op = "bwa_search" /\ ~Contains(text, Sentinel) /\ ~Contains(search_pattern, Sentinel))
    => /\ pc = "match_loop"
            => /\ RowsBeginningWith(Consumed) = top_pointer..bottom_pointer
               /\ top_pointer <= bottom_pointer
       /\ pc = "done"
            => result = ReturnInt(Cardinality(RowsBeginningWith(search_pattern)))

C14_Witness ==
  /\ pc = "match_loop" /\ op = "bwa_search"
  /\ text = <<65, 67, 65>> /\ search_pattern = <<67, 65>>
  /\ pattern = <<67>>
  /\ top_pointer = 1 /\ bottom_pointer = 2

\* C15 - LF formula: last_to_first_index(L)[i] = (positions of L holding a
\* symbol smaller than L[i]) + (occurrences of L[i] in L[0..i]) - 1, which is
\* where the k-th occurrence of the symbol stands in sorted(L).
C15_LFFormula ==
  (Returned /\ op = "last_to_first_index")
    => LET L == bwt_string
           n == Len(L)
       IN  /\ Len(result.idx) = n
           /\ \A i \in 0..(n - 1) :
                LET smaller == Cardinality({m \in 0..(n - 1) : At(L, m) < At(L, i)})
                    k == Cardinality({m \in 0..i : At(L, m) = At(L, i)})
                IN  /\ At(result.idx, i) = smaller + k - 1
                    /\ At(result.idx, i)
                         = At(pos_lists_L(Join(Sorted(Chars(L))), At(L, i)), k - 1)

C15_Witness ==
  /\ Returned /\ op = "last_to_first_index"
  /\ bwt_string = <<65, 36, 65, 35>>
  /\ result.idx = <<2, 1, 3, 0>>

\* C16 - LF is the cyclic-predecessor map: for text without '$', R the sorted
\* rotations of text + '$', L = bwt(text): for every row i, R[LF[i]] is L[i]
\* followed by R[i] without its last symbol; so the walk of invert_bwt from
\* the sentinel row emits text + '$' backward.
C16_CyclicPredecessor ==
  (op = "invert_bwt" /\ from_bwt /\ ~Contains(text, Sentinel))
    => LET R == lexsort_list(cyclic_rotations(text))
           S == text \o <<Sentinel>>
           n == Len(S)
       IN  /\ Len(next_row) = n
           /\ \A i \in 0..(n - 1) :
                /\ At(next_row, i) \in 0..(n - 1)
                /\ At(R, At(next_row, i))
                     = <<At(bwt_string, i)>> \o SubSeq(At(R, i), 1, n - 1)
           /\ Reversed(output) = SubSeq(S, n - Len(output) + 1, n)

C16_Witness ==
  /\ pc = "invert_loop" /\ op = "invert_bwt" /\ from_bwt
  /\ text = <<67, 65, 35>>
  /\ output = <<36, 35, 65>>

\* C17 - early termination: in the step in which the current pattern symbol
\* occurs nowhere in L[top..bottom], bw_matching returns 0: the pointers stay
\* as they are, only that one symbol has been taken off the pattern, and no
\* further step of the search follows.
C17_EarlyTermination ==
  [][/\ (/\ pc = "match_loop"
         /\ top_pointer <= bottom_pointer
         /\ pattern # << >>
         /\ current_positions(bwt_string, top_pointer, bottom_pointer,
                              pattern[Len(pattern)]) = {})
        => /\ pc' = "done"
           /\ result' = ReturnInt(0)
           /\ top_pointer' = top_pointer
           /\ bottom_pointer' = bottom_pointer
           /\ pattern' = SubSeq(pattern, 1, Len(pattern) - 1)
     /\ (pc = "done" /\ op = "bwa_search") => pc' = "idle"]_vars

C17_Witness ==
  /\ pc = "done" /\ op = "bwa_search"
  /\ text = <<65, 67>> /\ search_pattern = <<65, 35>>
  /\ pattern = <<65>>
  /\ top_pointer = 0 /\ bottom_pointer = 2
  /\ result = ReturnInt(0)

\* the maximal blocks of equal neighbouring symbols of s
MaximalRuns(s) ==
  {ab \in (1..Len(s)) \X (1..Len(s)) :
     /\ ab[1] <= ab[2]
     /\ \A i \in ab[1]..ab[2] : s[i] = s[ab[1]]
     /\ (ab[1] = 1 \/ s[ab[1] - 1] # s[ab[1]])
     /\ (ab[2] = Len(s) \/ s[ab[2] + 1] # s[ab[2]])}

ChangeCount(s) ==
  IF s = << >> THEN 0
  ELSE 1 + Cardinality({i \in 1..(Len(s) - 1) : At(s, i) # At(s, i - 1)})

\* C18 - run counts: analyze_compression reports as original_runs the number
\* of maximal equal-symbol runs of text (0 for the empty text) and as bwt_runs
\* that of bwt(text); each equals 0 for the empty string and otherwise 1 + the
\* number of positions i >= 1 whose symbol differs from the one before.
C18_RunCounts ==
  (pc = "done" /\ op = "analyze_compression")
    => /\ result.stats.original_runs = Cardinality(MaximalRuns(text))
       /\ result.stats.original_runs = ChangeCount(text)
       /\ result.stats.bwt_runs = Cardinality(MaximalRuns(bwt(text)))
       /\ result.stats.bwt_runs = ChangeCount(bwt(text))
       /\ text = << >> => result.stats.original_runs = 0

C18_Witness ==
  /\ pc = "done" /\ op = "analyze_compression"
  /\ text = <<65, 67, 67>>
  /\ result.stats.original_runs = 2
  /\ result.stats.bwt_runs = 4

\* C19 - rotation set: cyclic_rotations(text) returns n = len(text)+1 strings
\* of length n; entry i is S = text + '$' read cyclically from offset i; entry
\* 0 is S, the last entry begins with '$', and the empty text gives ['$'].
C19_RotationSet ==
  (pc = "done" /\ op = "cyclic_rotations")
    => LET S == text \o <<Sentinel>>
           n == Len(text) + 1
           r == result.list
       IN  /\ result.kind = "return"
           /\ Len(r) = n
           /\ \A i \in 0..(n - 1) :
                /\ Len(At(r, i)) = n
                /\ \A k \in 0..(n - 1) : At(At(r, i), k) = At(S, (i + k) % n)
           /\ At(r, 0) = S
           /\ At(At(r, n - 1), 0) = Sentinel
           /\ text = << >> => r = << <<Sentinel>> >>

C19_Witness ==
  /\ pc = "done" /\ op = "cyclic_rotations"
  /\ text = <<65, 67>>
  /\ result.list = << <<65, 67, 36>>, <<67, 36, 65>>, <<36, 65, 67>> >>

\* C20 - the range never inverts: in bwa_search, whenever the loop condition
\* of bw_matching is evaluated, 0 <= top_pointer <= bottom_pointer <= n - 1
\* with n = len(text) + 1; the loop is never left through its condition, and
\* a result of 0 comes only from the step that finds no position.
RangeInBounds ==
  (pc = "match_loop" /\ op = "bwa_search")
    => /\ Len(bwt_string) = Len(text) + 1
       /\ 0 <= top_pointer
       /\ top_pointer <= bottom_pointer
       /\ bottom_pointer <= Len(bwt_string) - 1

ZeroOnlyFromAbsence ==
  (pc = "match_loop" /\ op = "bwa_search" /\ pc' = "done" /\ result'.num = 0)
    => /\ top_pointer <= bottom_pointer
       /\ pattern # << >>
       /\ current_positions(bwt_string, top_pointer, bottom_pointer,
                            pattern[Len(pattern)]) = {}

C20_RangeNeverInverts == []RangeInBounds /\ [][ZeroOnlyFromAbsence]_vars

C20_Witness ==
  /\ pc = "match_loop" /\ op = "bwa_search"
  /\ text = <<65, 65, 65>> /\ search_pattern = <<65, 65>>
  /\ pattern = << >>
  /\ top_pointer = 2 /\ bottom_pointer = 3

\* C21 as stated - the search terminates: for every last column L, LF array
\* and pattern P, bw_matching returns after at most len(P) + 1 iterations of
\* its while loop.
C21_AlwaysReturns ==
  /\ iterations <= Len(search_pattern) + 1
  /\ (pc = "done" /\ op = "bw_matching") => result.kind = "return"

\* C21 - the search terminates: for every last column L, LF array and pattern
\* P, the call of bw_matching ends after at most len(P) + 1 iterations of its
\* while loop, because every iteration removes one symbol from the remaining
\* pattern or ends the call; the call ends by returning a count, or by raising
\* IndexError when a row of the range or an entry of the LF array is not an
\* index of the sequence it subscripts.
IterationBound == iterations <= Len(search_pattern) + 1

ConsumesOrEnds ==
  (pc = "match_loop" /\ op = "bw_matching" /\ iterations' = iterations + 1)
    => \/ pattern # << >> /\ pattern' = SubSeq(pattern, 1, Len(pattern) - 1)
       \/ pc' = "done"

EndsByReturnOrIndexError ==
  (pc = "done" /\ op = "bw_matching")
    => \/ result.kind = "return" /\ result.num >= 0
       \/ result.kind = "raise" /\ result.exc = "IndexError"

C21_SearchTerminates ==
  /\ []IterationBound
  /\ []EndsByReturnOrIndexError
  /\ [][ConsumesOrEnds]_vars
  /\ <>(pc = "done")

\* bw_matching("AA", LF = [1, 1], "AA") has entered its loop three times and
\* returned 1
C21_Witness ==
  /\ pc = "done" /\ op = "bw_matching"
  /\ bwt_string = <<65, 65>> /\ next_row = <<1, 1>>
  /\ search_pattern = <<65, 65>>
  /\ iterations = 3
  /\ result.kind = "return" /\ result.num = 1

=============================================================================
